---- MODULE Spec2Model ----
(***************************************************************************)
(* rtrim: strip trailing whitespace from the lines staged for commit.     *)
(*                                                                         *)
(* A model of src/src/main.rs (with src/src/error.rs).  One process run   *)
(* is main -> run -> get_repo_path -> get_staged_lines_with_trailing_     *)
(* spaces -> rtrim_files -> add_files.  The environment may start the     *)
(* program again after it exited (a hook that is invoked once more).      *)
(*                                                                         *)
(* Text.  A character is a token: "a", "b", "SP", "TAB"; "LF" is the line *)
(* terminator, "BAD" is a byte that is not valid UTF-8, "VT" is U+000B,   *)
(* a character with the Unicode White_Space property that is neither a    *)
(* space nor a tab.  A line is a sequence of characters without its       *)
(* terminator; a file is its sequence of lines and whether the last line  *)
(* carries a terminator.  The build modelled is the cfg(not(windows))     *)
(* one: LINE_ENDING is a single LF.                                        *)
(***************************************************************************)
EXTENDS Integers, Sequences, FiniteSets, TLC

VARIABLES
    head,       \* the HEAD tree: path -> file (exists = FALSE: not in HEAD)
    index,      \* the staging index: path -> file
    wt,         \* the working tree under the repository root: path -> file
    tmp,        \* the temporary siblings that exist: temp name -> file
    cwd,        \* the directory the process is started in
    args,       \* the command-line arguments after the program name
    pc,         \* where the process is
    repo_path,  \* run: let repo_path
    files,      \* run: let files, the scan's result map
    todo,       \* rtrim_files: the entries the for loop has not reached
    cur,        \* rtrim_files: the file being rewritten
    err,        \* the Err run returned, kind "none" when there is none
    stderr,     \* the lines written to the error stream by this run
    exit_code,  \* the exit status, -1 while the process runs
    runs,       \* how many times the program was started
    faults,     \* how many spontaneous I/O or index failures happened
    wt0,        \* the working tree when the current run started
    index0,     \* the staging index when the current run started
    tmp0,       \* the temporary siblings when the current run started
    prevOk,     \* the previous run returned Ok
    sync1       \* working tree = index for every file when run 1 started

vars == <<head, index, wt, tmp, cwd, args, pc, repo_path, files, todo, cur,
          err, stderr, exit_code, runs, faults, wt0, index0, tmp0, prevOk,
          sync1>>

(***************************************************************************)
(* Bounds of the model.                                                    *)
(***************************************************************************)
MaxShort == 2   \* lines of a file whose lines are drawn from RichLines
MaxLong == 5    \* lines of a file whose lines are drawn from PlainLines
MaxRuns == 2    \* successive runs of the program
MaxFaults == 1  \* spontaneous I/O and index failures in a behaviour

(***************************************************************************)
(* libgit2's default number of context lines of a hunk; the scan passes   *)
(* no diff options.                                                        *)
(***************************************************************************)
ContextLines == 3

Files == {"a.txt", "docs/b.md"}

Max(a, b) == IF a >= b THEN a ELSE b

Range(s) == {s[i] : i \in 1..Len(s)}

Last(s) == s[Len(s)]

(***************************************************************************)
(* Files.                                                                  *)
(***************************************************************************)
NoFile == [exists |-> FALSE, lines |-> <<>>, nl |-> FALSE]

MkFile(ls, n) == [exists |-> TRUE, lines |-> ls, nl |-> n]

\* The lines of a file as the diff sees them: each with its terminator,
\* the last one only when the file ends with one.
RawLines(f) ==
    [i \in 1..Len(f.lines) |->
        IF i < Len(f.lines) \/ f.nl THEN f.lines[i] \o <<"LF">> ELSE f.lines[i]]

\* A variant that decodes lossily and so never fails.
IsUtf8Lossy(s) == TRUE

\* str::from_utf8 succeeds
IsUtf8(s) == \A i \in 1..Len(s) : s[i] # "BAD"

EndsWith(s, suffix) ==
    /\ Len(s) >= Len(suffix)
    /\ SubSeq(s, Len(s) - Len(suffix) + 1, Len(s)) = suffix

trailing_whitespaces(s) ==
    \/ EndsWith(s, <<"SP">>)
    \/ EndsWith(s, <<"TAB">>)
    \/ EndsWith(s, <<"SP", "LF">>)
    \/ EndsWith(s, <<"TAB", "LF">>)

\* char::is_whitespace, the characters str::trim_end removes
IsWhitespace(c) == c \in {"SP", "TAB", "VT", "LF"}

\* A variant that removes trailing spaces only, as trim_end_matches(' ') does.
RECURSIVE trim_end_spaces(_)
trim_end_spaces(s) ==
    IF s # <<>> /\ Last(s) = "SP"
    THEN trim_end_spaces(SubSeq(s, 1, Len(s) - 1))
    ELSE s

RECURSIVE trim_end(_)
trim_end(s) ==
    IF s # <<>> /\ IsWhitespace(Last(s))
    THEN trim_end(SubSeq(s, 1, Len(s) - 1))
    ELSE s

(***************************************************************************)
(* The diff of the HEAD tree against the index, as                        *)
(* Repository::diff_tree_to_index computes it and Diff::print renders it. *)
(* DiffScript is a shortest edit script of the old lines into the new     *)
(* ones (a longest common subsequence, deletions before additions); a     *)
(* common line is printed as context when it lies within ContextLines     *)
(* lines of a changed one.  A file without any change is not in the diff. *)
(***************************************************************************)
DiffScript(old, new) ==
    LET m == Len(old)
        n == Len(new)
        L[i \in 0..m, j \in 0..n] ==
            IF i = m \/ j = n THEN 0
            ELSE IF old[i + 1] = new[j + 1] THEN 1 + L[i + 1, j + 1]
            ELSE Max(L[i + 1, j], L[i, j + 1])
        S[i \in 0..m, j \in 0..n] ==
            IF i = m /\ j = n THEN <<>>
            ELSE IF i < m /\ j < n /\ old[i + 1] = new[j + 1]
                THEN <<[op |-> "=", new_lineno |-> j + 1]>> \o S[i + 1, j + 1]
            ELSE IF j = n \/ (i < m /\ L[i + 1, j] >= L[i, j + 1])
                THEN <<[op |-> "-", new_lineno |-> 0]>> \o S[i + 1, j]
            ELSE <<[op |-> "+", new_lineno |-> j + 1]>> \o S[i, j + 1]
    IN  S[0, 0]

\* The new-side line numbers of the lines Diff::print passes to the
\* callback with new_lineno() = Some(_): additions and context lines.
NewSideLines(old, new) ==
    LET sc == DiffScript(old, new)
        Changed(k) == sc[k].op # "="
        Near(k) == \E c \in 1..Len(sc) :
                      /\ Changed(c)
                      /\ c - k <= ContextLines
                      /\ k - c <= ContextLines
    IN  {sc[k].new_lineno : k \in {x \in 1..Len(sc) : sc[x].op # "-" /\ Near(x)}}

\* The elements of a set of numbers in ascending order, the order in which
\* the diff emits the lines of one file.
RECURSIVE Ascending(_)
Ascending(S) ==
    IF S = {} THEN <<>>
    ELSE LET lo == CHOOSE x \in S : \A y \in S : x <= y
         IN  <<lo>> \o Ascending(S \ {lo})

\* The callback's test of one diff line: it decodes as UTF-8 and ends in
\* trailing whitespace.
Flagged(raw_line) == IsUtf8(raw_line) /\ trailing_whitespaces(raw_line)

\* The queue the callback builds for one file.
StagedQueue(old_file, new_file) ==
    LET raw == RawLines(new_file)
    IN  Ascending({n \in NewSideLines(RawLines(old_file), raw) : Flagged(raw[n])})

\* The result map: only the files with at least one flagged line are keys.
StagedLines(h, ix) ==
    LET keys == {f \in Files : StagedQueue(h[f], ix[f]) # <<>>}
    IN  [f \in keys |-> StagedQueue(h[f], ix[f])]

(***************************************************************************)
(* Paths.  Directories are "root" (the repository's working-tree root),   *)
(* "sub" (its directory docs), "outside" (a directory with no repository  *)
(* at or above it) and "missing" (no such path).                           *)
(***************************************************************************)
\* A variant that takes the argument for a filter and starts where it is.
ResolveIgnoringArgument(dir, arg) == dir

Resolve(dir, arg) ==
    CASE arg = "." -> dir
      [] arg = "docs" -> IF dir = "root" THEN "sub" ELSE "missing"
      [] OTHER -> "missing"

\* A variant that searches the ancestors, as Repository::discover does.
RepositoryDiscover(path) == path \in {"root", "sub"}

\* Repository::open: the path itself is a repository; no upward search.
RepositoryOpen(path) == path = "root"

\* path_combine(dir, file_name) in the working tree
WorkFile(dir, f) == IF dir = "root" THEN wt[f] ELSE NoFile

\* A variant seeded anew by every process, as RandomState is.
calculate_hash_seeded(t) == <<"siphash", t, runs>>

calculate_hash(t) == <<"siphash", t>>

\* new_file_name: the file name followed by the hash of the file name
NewFileName(f) == <<f, calculate_hash(f)>>

\* A variant with create(true).truncate(true) in place of create_new(true).
CreateOrTruncate(name) == TRUE

\* OpenOptions::new().write(true).create_new(true).open(..) succeeds
CreateNew(name) == name \notin DOMAIN tmp

NoErr == [kind |-> "none", msg |-> "", stage |-> ""]

NoCur == [active |-> FALSE, file |-> "", lines |-> <<>>, line_no |-> 0,
          created |-> FALSE]

EmptyMap == [f \in {} |-> <<>>]

\* A variant of run that drops the rewriter's Err and goes on to add_files.
QuestionMarkDropsRewriterErr(stage) == IF stage = "rtrim" THEN "add" ELSE "failed"

\* The ? operator of run: an Err of any stage is returned at once.
QuestionMark(stage) == "failed"

Fail(stage, kind, msg) ==
    /\ pc' = QuestionMark(stage)
    /\ err' = [kind |-> kind, msg |-> msg, stage |-> stage]

World == <<head, index, wt, tmp>>
Start == <<cwd, args, runs, wt0, index0, tmp0, prevOk, sync1>>

(***************************************************************************)
(* The initial states: a repository with one staged change, a start       *)
(* directory and the arguments.  a.txt is either a short file over every  *)
(* kind of line or a longer file of plain lines; docs/b.md is a new file  *)
(* of one line that ends in a space.                                       *)
(***************************************************************************)
RichLines == {<<"a", "TAB">>, <<"a", "VT", "SP">>, <<"BAD", "SP">>}

PlainLines == {<<"a">>, <<"a", "SP">>}

SeqsUpTo(S, n) == UNION {[1..k -> S] : k \in 1..n}

\* What HEAD holds of a file whose staged lines are ls: nothing (the file
\* is new), the same lines (nothing staged) or another first line.
HeadOf(ls, hv) ==
    CASE hv = "new" -> NoFile
      [] hv = "same" -> MkFile(ls, TRUE)
      [] OTHER -> MkFile(<<<<"b">>>> \o Tail(ls), TRUE)

\* [h, i, w]: the file in HEAD, in the index and in the working tree.
\* "clean": the working tree holds what is staged; "nonl": so, and the
\* last line has no terminator; "unstaged": the working tree has one more
\* first line, which is not staged.
Version(ls, hv, wv) ==
    [h |-> HeadOf(ls, hv),
     i |-> MkFile(ls, wv # "nonl"),
     w |-> IF wv = "unstaged" THEN MkFile(<<<<"b">>>> \o ls, TRUE)
           ELSE MkFile(ls, wv # "nonl")]

VersionsA ==
    {Version(ls, v[1], v[2]) :
        ls \in SeqsUpTo(RichLines, MaxShort),
        v \in ({"new", "edit"} \X {"clean", "nonl", "unstaged"})
              \cup {<<"same", "clean">>}}
    \cup
    {Version(ls, "edit", "clean") : ls \in SeqsUpTo(PlainLines, MaxLong)}

VersionsB == {Version(<<<<"a", "SP">>>>, "new", "clean")}

\* The start directory and the arguments: no argument in each kind of
\* directory, or one argument in the repository's root.
Starts ==
    {<<d, <<>>>> : d \in {"root", "sub", "outside"}}
    \cup {<<"root", <<a>>>> : a \in {".", "docs", "src/*.rs"}}

Init ==
    \E a \in VersionsA, b \in VersionsB, st \in Starts :
        /\ head = [f \in Files |-> IF f = "a.txt" THEN a.h ELSE b.h]
        /\ index = [f \in Files |-> IF f = "a.txt" THEN a.i ELSE b.i]
        /\ wt = [f \in Files |-> IF f = "a.txt" THEN a.w ELSE b.w]
        /\ tmp = EmptyMap
        /\ cwd = st[1]
        /\ args = st[2]
        /\ pc = "start"
        /\ repo_path = ""
        /\ files = EmptyMap
        /\ todo = {}
        /\ cur = NoCur
        /\ err = NoErr
        /\ stderr = <<>>
        /\ exit_code = -1
        /\ runs = 1
        /\ faults = 0
        /\ wt0 = wt
        /\ index0 = index
        /\ tmp0 = tmp
        /\ prevOk = FALSE
        /\ sync1 = (a.w = a.i /\ b.w = b.i)

(***************************************************************************)
(* get_repo_path: the first argument is the repository's path; without    *)
(* one it is the current directory.                                        *)
(***************************************************************************)
get_repo_path ==
    /\ pc = "start"
    /\ IF args = <<>>
       THEN /\ repo_path' = cwd
            /\ pc' = "scan"
            /\ err' = err
       ELSE IF Resolve(cwd, args[1]) = "missing"
       THEN /\ Fail("get_repo_path", "Io", "file not found")
            /\ repo_path' = repo_path
       ELSE /\ repo_path' = Resolve(cwd, args[1])
            /\ pc' = "scan"
            /\ err' = err
    /\ UNCHANGED <<World, Start, files, todo, cur, stderr, exit_code, faults>>

(***************************************************************************)
(* get_staged_lines_with_trailing_spaces                                   *)
(***************************************************************************)
get_staged_lines_with_trailing_spaces ==
    /\ pc = "scan"
    /\ RepositoryOpen(repo_path)
    /\ files' = StagedLines(head, index)
    /\ todo' = DOMAIN files'
    /\ pc' = "rtrim"
    /\ UNCHANGED <<World, Start, repo_path, cur, err, stderr, exit_code, faults>>

get_staged_lines_Err ==
    /\ pc = "scan"
    /\ ~RepositoryOpen(repo_path)
    /\ Fail("scan", "Git", "could not find repository")
    /\ UNCHANGED <<World, Start, repo_path, files, todo, cur, stderr, exit_code,
                   faults>>

(***************************************************************************)
(* rtrim_files.  The for loop takes the entries of the map in the         *)
(* HashMap's order, which is arbitrary.  A spontaneous failure of the     *)
(* file system (a fault) may end any step that does I/O.                   *)
(***************************************************************************)
MayFault == faults < MaxFaults

\* The message of an std::io::Error the file system raised by itself.
IoFault == "Input/output error"

Extend(m, name, file) ==
    [n \in DOMAIN m \cup {name} |-> IF n = name THEN file ELSE m[n]]

Remove(m, name) == [n \in DOMAIN m \ {name} |-> m[n]]

\* What the writer has put into the temporary file: every line is
\* followed by LINE_ENDING.
Written(ls) == MkFile(ls, ls # <<>>)

\* File::open, then the exclusive creation of the temporary sibling.
rtrim_open(f) ==
    /\ pc = "rtrim"
    /\ ~cur.active
    /\ f \in todo
    /\ WorkFile(repo_path, f).exists
    /\ CreateNew(NewFileName(f))
    /\ tmp' = Extend(tmp, NewFileName(f), Written(<<>>))
    /\ cur' = [active |-> TRUE, file |-> f, lines |-> files[f], line_no |-> 1,
               created |-> TRUE]
    /\ UNCHANGED <<head, index, wt, Start, pc, repo_path, files, todo, err,
                   stderr, exit_code, faults>>

rtrim_open_Err(f) ==
    /\ pc = "rtrim"
    /\ ~cur.active
    /\ f \in todo
    /\ IF WorkFile(repo_path, f).exists
       THEN MayFault /\ faults' = faults + 1 /\ Fail("rtrim", "Io", IoFault)
       ELSE faults' = faults
            /\ Fail("rtrim", "Io", "No such file or directory")
    /\ cur' = [NoCur EXCEPT !.file = f]
    /\ UNCHANGED <<World, Start, repo_path, files, todo, stderr, exit_code>>

rtrim_create_new_Err(f) ==
    /\ pc = "rtrim"
    /\ ~cur.active
    /\ f \in todo
    /\ WorkFile(repo_path, f).exists
    /\ ~CreateNew(NewFileName(f))
    /\ Fail("rtrim", "Io", "File exists")
    /\ cur' = [NoCur EXCEPT !.file = f]
    /\ UNCHANGED <<World, Start, repo_path, files, todo, stderr, exit_code,
                   faults>>

\* The line reader.lines() yields next, when there is one.
NextLine == WorkFile(repo_path, cur.file).lines[cur.line_no]

HasNextLine ==
    /\ pc = "rtrim"
    /\ cur.active
    /\ cur.line_no <= Len(WorkFile(repo_path, cur.file).lines)

\* One turn of the loop over reader.lines().
rtrim_line ==
    /\ HasNextLine
    /\ IsUtf8(NextLine)
    /\ LET trim == cur.lines # <<>> /\ cur.line_no = Head(cur.lines)
           line_to_write == IF trim THEN trim_end(NextLine) ELSE NextLine
           name == NewFileName(cur.file)
       IN  /\ tmp' = [tmp EXCEPT ![name] = Written(tmp[name].lines \o <<line_to_write>>)]
           /\ cur' = [cur EXCEPT !.lines = IF trim THEN Tail(cur.lines) ELSE cur.lines,
                                 !.line_no = cur.line_no + 1]
    /\ UNCHANGED <<head, index, wt, Start, pc, repo_path, files, todo, err,
                   stderr, exit_code, faults>>

\* value? : the line is not valid UTF-8, or the read failed.
rtrim_read_Err ==
    /\ HasNextLine
    /\ IF IsUtf8(NextLine)
       THEN MayFault /\ faults' = faults + 1 /\ Fail("rtrim", "Io", IoFault)
       ELSE faults' = faults
            /\ Fail("rtrim", "Io", "stream did not contain valid UTF-8")
    /\ UNCHANGED <<World, Start, repo_path, files, todo, cur, stderr, exit_code>>

\* writer.write_all(..)? fails
rtrim_write_Err ==
    /\ HasNextLine
    /\ IsUtf8(NextLine)
    /\ MayFault
    /\ faults' = faults + 1
    /\ Fail("rtrim", "Io", "No space left on device")
    /\ UNCHANGED <<World, Start, repo_path, files, todo, cur, stderr, exit_code>>

AtEndOfFile ==
    /\ pc = "rtrim"
    /\ cur.active
    /\ cur.line_no > Len(WorkFile(repo_path, cur.file).lines)

\* writer.flush() and std::fs::rename(&new_file_path, &file_path)
rtrim_rename ==
    /\ AtEndOfFile
    /\ wt' = [wt EXCEPT ![cur.file] = tmp[NewFileName(cur.file)]]
    /\ tmp' = Remove(tmp, NewFileName(cur.file))
    /\ todo' = todo \ {cur.file}
    /\ cur' = NoCur
    /\ UNCHANGED <<head, index, Start, pc, repo_path, files, err, stderr,
                   exit_code, faults>>

rtrim_flush_Err ==
    /\ AtEndOfFile
    /\ MayFault
    /\ faults' = faults + 1
    /\ Fail("rtrim", "Io", IoFault)
    /\ UNCHANGED <<World, Start, repo_path, files, todo, cur, stderr, exit_code>>

rtrim_rename_Err ==
    /\ AtEndOfFile
    /\ MayFault
    /\ faults' = faults + 1
    /\ Fail("rtrim", "Io", "Permission denied")
    /\ UNCHANGED <<World, Start, repo_path, files, todo, cur, stderr, exit_code>>

\* The for loop is over: Ok(())
rtrim_return ==
    /\ pc = "rtrim"
    /\ ~cur.active
    /\ todo = {}
    /\ pc' = "add"
    /\ UNCHANGED <<World, Start, repo_path, files, todo, cur, err, stderr,
                   exit_code, faults>>

rtrim_files ==
    \/ \E f \in Files : rtrim_open(f)
    \/ \E f \in Files : rtrim_open_Err(f)
    \/ \E f \in Files : rtrim_create_new_Err(f)
    \/ rtrim_line
    \/ rtrim_read_Err
    \/ rtrim_write_Err
    \/ rtrim_rename
    \/ rtrim_flush_Err
    \/ rtrim_rename_Err
    \/ rtrim_return

(***************************************************************************)
(* add_files: index.add_path reads each key's file from the working tree  *)
(* into the index; index.write() persists the index.                       *)
(***************************************************************************)
add_files ==
    /\ pc = "add"
    /\ RepositoryOpen(repo_path)
    /\ \A f \in DOMAIN files : WorkFile(repo_path, f).exists
    /\ index' = [f \in Files |->
                    IF f \in DOMAIN files THEN WorkFile(repo_path, f) ELSE index[f]]
    /\ pc' = "ok"
    /\ UNCHANGED <<head, wt, tmp, Start, repo_path, files, todo, cur, err,
                   stderr, exit_code, faults>>

add_files_Err ==
    /\ pc = "add"
    /\ IF /\ RepositoryOpen(repo_path)
          /\ \A f \in DOMAIN files : WorkFile(repo_path, f).exists
       THEN MayFault /\ faults' = faults + 1
       ELSE faults' = faults
    /\ Fail("add", "Git", "failed to write index")
    /\ UNCHANGED <<World, Start, repo_path, files, todo, cur, stderr, exit_code>>

(***************************************************************************)
(* main: an Err is printed as one line, "error " and the message; main    *)
(* then returns as it does after Ok, and the process exits with the       *)
(* status of a main that returned.                                         *)
(***************************************************************************)
ExitOfMain == 0

main_Ok ==
    /\ pc = "ok"
    /\ exit_code' = ExitOfMain
    /\ pc' = "exited"
    /\ UNCHANGED <<World, Start, repo_path, files, todo, cur, err, stderr, faults>>

main_Err ==
    /\ pc = "failed"
    /\ stderr' = Append(stderr, <<"error", err.msg>>)
    /\ exit_code' = ExitOfMain
    /\ pc' = "exited"
    /\ UNCHANGED <<World, Start, repo_path, files, todo, cur, err, faults>>

(***************************************************************************)
(* The environment starts the program again, in the same directory with   *)
(* the same arguments.                                                     *)
(***************************************************************************)
NewRun ==
    /\ pc = "exited"
    /\ runs < MaxRuns
    /\ runs' = runs + 1
    /\ pc' = "start"
    /\ repo_path' = ""
    /\ files' = EmptyMap
    /\ todo' = {}
    /\ cur' = NoCur
    /\ err' = NoErr
    /\ stderr' = <<>>
    /\ exit_code' = -1
    /\ wt0' = wt
    /\ index0' = index
    /\ tmp0' = tmp
    /\ prevOk' = (err.kind = "none")
    /\ UNCHANGED <<World, cwd, args, faults, sync1>>

Next ==
    \/ get_repo_path
    \/ get_staged_lines_with_trailing_spaces
    \/ get_staged_lines_Err
    \/ rtrim_files
    \/ add_files
    \/ add_files_Err
    \/ main_Ok
    \/ main_Err
    \/ NewRun

Spec == Init /\ [][Next]_vars

(***************************************************************************)
(* Vocabulary of the properties, stated apart from the operators above.   *)
(***************************************************************************)
Ended == pc \in {"failed", "exited"}

Failed == err.kind # "none"

\* The scan of this run has returned its map.
Scanned ==
    \/ pc \in {"rtrim", "add", "ok"}
    \/ Ended /\ err.stage \notin {"get_repo_path", "scan"}

HasBadByte(s) == \E i \in 1..Len(s) : s[i] = "BAD"

EndsInSpaceOrTab(s) == s # <<>> /\ Last(s) \in {"SP", "TAB"}

\* A line without its trailing spaces and tabs, and with nothing else removed.
RECURSIVE StripSpaceTab(_)
StripSpaceTab(s) ==
    IF EndsInSpaceOrTab(s) THEN StripSpaceTab(SubSeq(s, 1, Len(s) - 1)) ELSE s

\* A line without any trailing white space.
RECURSIVE StripWhite(_)
StripWhite(s) ==
    IF s # <<>> /\ Last(s) \in {"SP", "TAB", "VT"}
    THEN StripWhite(SubSeq(s, 1, Len(s) - 1))
    ELSE s

\* The lines ls with Strip applied to the lines whose numbers are in queue q.
SpaceTabStripped(ls, q) ==
    [i \in 1..Len(ls) |-> IF i \in Range(q) THEN StripSpaceTab(ls[i]) ELSE ls[i]]

WhiteStripped(ls, q) ==
    [i \in 1..Len(ls) |-> IF i \in Range(q) THEN StripWhite(ls[i]) ELSE ls[i]]

\* The temporary siblings of file f among the temporary files m.
SiblingsOf(f, m) == {n \in DOMAIN m : n[1] = f}

\* The staged lines of f, when the run started, that occur nowhere in the
\* HEAD version of f, so that every diff shows them as added, and that are
\* valid UTF-8 and end in a space or a tab.
Violations(f) ==
    {n \in 1..Len(index0[f].lines) :
        /\ RawLines(index0[f])[n] \notin Range(RawLines(head[f]))
        /\ ~HasBadByte(index0[f].lines[n])
        /\ EndsInSpaceOrTab(index0[f].lines[n])}

\* An argument read as a path filter.
Matches(pattern, f) ==
    CASE pattern = "." -> TRUE
      [] pattern = "docs" -> f = "docs/b.md"
      [] OTHER -> FALSE

C2_FailureExitsNonZero ==
    pc = "exited" =>
        /\ Failed => exit_code # 0 /\ stderr = <<<<"error", err.msg>>>>
        /\ exit_code = 0 => ~Failed

C5_SecondRunDoesNothing ==
    (runs = 2 /\ prevOk /\ sync1 /\ Scanned) =>
        /\ files = EmptyMap
        /\ wt = wt0
        /\ index = index0

(***************************************************************************)
(* C6: a diff line that is not valid UTF-8 is never put into a queue, and *)
(* a working-tree file with a line that is not valid UTF-8 keeps its      *)
(* original bytes at its path, whether or not other lines of it were      *)
(* flagged.                                                                *)
(***************************************************************************)
C6_InvalidUtf8NeverFlaggedNorRewritten ==
    /\ \A f \in DOMAIN files : \A n \in Range(files[f]) :
          /\ n \in 1..Len(index0[f].lines)
          /\ ~HasBadByte(index0[f].lines[n])
    /\ \A f \in Files :
          (\E i \in 1..Len(wt0[f].lines) : HasBadByte(wt0[f].lines[i])) =>
              wt[f] = wt0[f]

C6_Witness ==
    /\ pc = "exited"
    /\ "a.txt" \in DOMAIN files
    /\ \E i \in 1..Len(wt0["a.txt"].lines) : HasBadByte(wt0["a.txt"].lines[i])
    /\ cur.file = "a.txt"
    /\ cur.created
    /\ err.msg = "stream did not contain valid UTF-8"

(***************************************************************************)
(* C7: the run stops at the first failing stage.  After a failure the     *)
(* index is what it was before the run and add_files is never reached;    *)
(* after a failure of get_repo_path or of the scan no working-tree file   *)
(* is changed; after a failure of the rewriter the files rewritten before *)
(* it stay trimmed and all the others, the failing one included, are      *)
(* untouched.                                                              *)
(***************************************************************************)
C7_StopsAtTheFirstFailingStage ==
    Failed =>
        /\ Ended
        /\ index = index0
        /\ err.stage \in {"get_repo_path", "scan"} => wt = wt0 /\ files = EmptyMap
        /\ err.stage = "rtrim" =>
              \A f \in Files :
                  IF f \in (DOMAIN files) \ todo
                  THEN /\ wt[f].lines = WhiteStripped(wt0[f].lines, files[f])
                       /\ wt[f].nl
                  ELSE wt[f] = wt0[f]
        /\ err.stage = "add" =>
              \A f \in DOMAIN files :
                  wt[f].lines = WhiteStripped(wt0[f].lines, files[f])

C7_Witness ==
    /\ pc = "exited"
    /\ err.stage = "rtrim"
    /\ DOMAIN files = Files
    /\ \E f \in Files : f \notin todo /\ wt[f] # wt0[f]
    /\ \E f \in todo : wt[f] = wt0[f]

(***************************************************************************)
(* C8: the run does not operate on unstaged changes: after a successful   *)
(* run the index holds, for every flagged file, the lines staged before   *)
(* the run with the trailing white space of the flagged lines removed and *)
(* nothing else.  The code rewrites the working-tree file by the staged   *)
(* line numbers and adds the whole working-tree file to the index.        *)
(***************************************************************************)
C8_IndexHoldsTheStagedLinesTrimmed ==
    (pc = "exited" /\ ~Failed) =>
        \A f \in DOMAIN files :
            index[f].lines = WhiteStripped(index0[f].lines, files[f])

(***************************************************************************)
(* C9: crash-safe replacement.  From the moment rtrim_files turns to a    *)
(* file until the rename, whatever step fails, the original path holds    *)
(* the content it had when the run started; and a temporary sibling that  *)
(* existed when the run started is never overwritten: it keeps its        *)
(* content, the rewrite of its file fails at the exclusive creation and   *)
(* the original is not replaced.                                           *)
(***************************************************************************)
C9_OriginalIntactUntilRename ==
    /\ cur.file # "" => wt[cur.file] = wt0[cur.file]
    /\ \A n \in DOMAIN tmp0 :
          /\ n \in DOMAIN tmp
          /\ tmp[n] = tmp0[n]
          /\ wt[n[1]] = wt0[n[1]]
          /\ cur.file = n[1] => ~cur.created
          /\ (cur.file = n[1] /\ Failed /\ faults = 0) => err.msg = "File exists"

C9_Witness ==
    /\ pc = "failed"
    /\ err.msg = "File exists"
    /\ SiblingsOf(cur.file, tmp0) # {}
    /\ \E n \in DOMAIN tmp0 : tmp0[n].lines # <<>>

(***************************************************************************)
(* C10: the temporary name depends on the file name alone and no failure  *)
(* removes the temporary file.  So when a run fails on a file after       *)
(* creating its sibling, the sibling exists from then on, and every later *)
(* run whose scan flags that file fails without creating a sibling for    *)
(* it, with the file and the index as they were when that run started.    *)
(***************************************************************************)
C10_LeakedSiblingBlocksLaterRuns ==
    /\ (Failed /\ cur.created) => SiblingsOf(cur.file, tmp) # {}
    /\ \A f \in Files :
          SiblingsOf(f, tmp0) # {} =>
              /\ SiblingsOf(f, tmp) = SiblingsOf(f, tmp0)
              /\ f \in DOMAIN files =>
                    /\ wt[f] = wt0[f]
                    /\ index = index0
                    /\ pc \notin {"add", "ok"}
                    /\ cur.file = f => ~cur.created
                    /\ pc = "exited" => err.kind = "Io"

C10_Witness ==
    /\ runs = 2
    /\ pc = "exited"
    /\ "a.txt" \in DOMAIN files
    /\ SiblingsOf("a.txt", tmp0) # {}
    /\ cur.file = "a.txt"
    /\ err.msg = "File exists"
    /\ wt["docs/b.md"] # wt0["docs/b.md"]

====
